---- MODULE Spec2Model ----
(***************************************************************************)
(* graphb: a builder for GraphQL documents.  A Query owns a tree of        *)
(* Fields, Arguments and argument values; Query.StringChan validates the   *)
(* tree and then renders it as a stream of tokens, every node of the tree  *)
(* running its own goroutine that sends on its own unbuffered channel.     *)
(*                                                                         *)
(* Text is modelled as a sequence of one-character strings, a token is a   *)
(* text, and a goroutine is a process addressed by the path of its node.   *)
(***************************************************************************)
EXTENDS Integers, Sequences, FiniteSets, TLC

(***************************************************************************)
(* Bounds of the explored inputs.                                          *)
(***************************************************************************)
MaxNameLen == 2
MaxFields == 2
MaxSlice == 2

(***************************************************************************)
(* Text.                                                                   *)
(***************************************************************************)
RECURSIVE Join(_)
Join(ss) == IF ss = <<>> THEN <<>> ELSE Head(ss) \o Join(Tail(ss))

IsPrefix(s, t) == Len(s) <= Len(t) /\ SubSeq(t, 1, Len(s)) = s

RECURSIVE SeqsUpTo(_, _)
SeqsUpTo(S, n) ==
    IF n = 0 THEN {<<>>}
    ELSE LET R == SeqsUpTo(S, n - 1)
         IN R \cup {Append(r, x) : r \in {r0 \in R : Len(r0) = n - 1}, x \in S}

UpperLetters == <<"A","B","C","D","E","F","G","H","I","J","K","L","M",
                  "N","O","P","Q","R","S","T","U","V","W","X","Y","Z">>
LowerLetters == <<"a","b","c","d","e","f","g","h","i","j","k","l","m",
                  "n","o","p","q","r","s","t","u","v","w","x","y","z">>
DigitChars == <<"0","1","2","3","4","5","6","7","8","9">>

Range(s) == {s[i] : i \in DOMAIN s}

\* strings.ToLower, character by character
ToLowerChar(c) ==
    IF c \in Range(UpperLetters)
    THEN LowerLetters[CHOOSE i \in DOMAIN UpperLetters : UpperLetters[i] = c]
    ELSE c

ToLower(s) == [i \in DOMAIN s |-> ToLowerChar(s[i])]

\* fmt.Sprintf("%d", v)
RECURSIVE FmtNat(_)
FmtNat(n) ==
    IF n < 10 THEN <<DigitChars[n + 1]>>
    ELSE FmtNat(n \div 10) \o <<DigitChars[(n % 10) + 1]>>

FmtInt(n) == IF n < 0 THEN <<"-">> \o FmtNat(0 - n) ELSE FmtNat(n)

\* fmt.Sprintf("%t", v)
FmtBool(b) == IF b THEN <<"t","r","u","e">> ELSE <<"f","a","l","s","e">>

Pad2(n) == IF n < 10 THEN <<"0">> \o FmtNat(n) ELSE FmtNat(n)

Pad4(n) ==
    IF n < 10 THEN <<"0","0","0">> \o FmtNat(n)
    ELSE IF n < 100 THEN <<"0","0">> \o FmtNat(n)
    ELSE IF n < 1000 THEN <<"0">> \o FmtNat(n)
    ELSE FmtNat(n)

\* time.Time.Format(time.RFC3339): 2006-01-02T15:04:05Z07:00
FmtRFC3339(t) ==
    Pad4(t.year) \o <<"-">> \o Pad2(t.month) \o <<"-">> \o Pad2(t.day)
    \o <<"T">> \o Pad2(t.hour) \o <<":">> \o Pad2(t.min) \o <<":">> \o Pad2(t.sec)
    \o (IF t.off = 0 THEN <<"Z">>
        ELSE LET a == IF t.off < 0 THEN 0 - t.off ELSE t.off
             IN (IF t.off < 0 THEN <<"-">> ELSE <<"+">>)
                \o Pad2(a \div 60) \o <<":">> \o Pad2(a % 60))

DQ == "\""
BS == "\\"

\* strings.Replace(s, `"`, `\"`, -1)
RECURSIVE ReplaceQuotes(_)
ReplaceQuotes(s) ==
    IF s = <<>> THEN <<>>
    ELSE (IF Head(s) = DQ THEN <<BS, DQ>> ELSE <<Head(s)>>) \o ReplaceQuotes(Tail(s))

(***************************************************************************)
(* Errors.                                                                 *)
(***************************************************************************)
Nil == [kind |-> "nil"]

operationName == "operation name"
fieldName == "field name"
aliasName == "alias name"

InvalidOperationTypeErr(t) == [kind |-> "InvalidOperationTypeErr", Type |-> t]
InvalidNameErr(k, n) == [kind |-> "InvalidNameErr", Type |-> k, Name |-> n]
NilFieldErr == [kind |-> "NilFieldErr"]

(***************************************************************************)
(* The tree.  A Query holds Fields (a nil *Field is Nil), a Field holds    *)
(* Arguments and Fields, an Argument holds a value (a nil interface is     *)
(* Nil), and the values argumentCustom and argArgSlice hold Arguments.     *)
(***************************************************************************)
Query(t, n, fs) == [kind |-> "Query", Type |-> t, Name |-> n, Fields |-> fs]
Field(n, al, args, fs) ==
    [kind |-> "Field", Name |-> n, Alias |-> al, Arguments |-> args, Fields |-> fs]
Argument(n, v) == [kind |-> "Argument", Name |-> n, Value |-> v]

argBool(v) == [kind |-> "argBool", v |-> v]
argInt(v) == [kind |-> "argInt", v |-> v]
argString(v) == [kind |-> "argString", v |-> v]
argQuotedString(v) == [kind |-> "argQuotedString", v |-> v]
argBlockString(v) == [kind |-> "argBlockString", v |-> v]
argEnum(v) == [kind |-> "argEnum", v |-> v]
argTime(v) == [kind |-> "argTime", v |-> v]
argBoolSlice(v) == [kind |-> "argBoolSlice", v |-> v]
argIntSlice(v) == [kind |-> "argIntSlice", v |-> v]
argStringSlice(v) == [kind |-> "argStringSlice", v |-> v]
argEnumSlice(v) == [kind |-> "argEnumSlice", v |-> v]
argumentCustom(v) == [kind |-> "argumentCustom", v |-> v]
argArgSlice(v) == [kind |-> "argArgSlice", v |-> v]

TypeQuery == <<"q","u","e","r","y">>
TypeMutation == <<"m","u","t","a","t","i","o","n">>
TypeSubscription == <<"s","u","b","s","c","r","i","p","t","i","o","n">>

(***************************************************************************)
(* Validation.                                                             *)
(***************************************************************************)
isValidOperationType(t) == t \in {TypeQuery, TypeMutation, TypeSubscription}

NameStart == Range(UpperLetters) \cup Range(LowerLetters) \cup {"_"}
NameRest == NameStart \cup Range(DigitChars)

\* regexp ^[_A-Za-z][_0-9A-Za-z]*$ run over the text from left to right
RECURSIVE validNameRest(_)
validNameRest(s) == s = <<>> \/ (Head(s) \in NameRest /\ validNameRest(Tail(s)))

validName_MatchString(s) == s # <<>> /\ Head(s) \in NameStart /\ validNameRest(Tail(s))

checkName_noEmptyGuard(q) ==
    IF ~validName_MatchString(q.Name)
    THEN InvalidNameErr(operationName, q.Name)
    ELSE Nil

checkName(q) ==
    IF q.Name # <<>> /\ ~validName_MatchString(q.Name)
    THEN InvalidNameErr(operationName, q.Name)
    ELSE Nil

check_nameFirst(q) ==
    IF checkName(q) # Nil THEN checkName(q)
    ELSE IF ~isValidOperationType(q.Type) THEN InvalidOperationTypeErr(q.Type)
    ELSE Nil

check(q) ==
    IF ~isValidOperationType(q.Type) THEN InvalidOperationTypeErr(q.Type)
    ELSE IF checkName(q) # Nil THEN checkName(q)
    ELSE Nil

\* Field.check: the alias if there is one, otherwise the name; then the
\* subfields in order, a nil subfield being a missing field
RECURSIVE Field_check(_)
Field_check(f) ==
    LET RECURSIVE subs(_)
        subs(i) ==
            IF i > Len(f.Fields) THEN Nil
            ELSE IF f.Fields[i] = Nil THEN NilFieldErr
            ELSE IF Field_check(f.Fields[i]) # Nil THEN Field_check(f.Fields[i])
            ELSE subs(i + 1)
    IN IF f.Alias # <<>> /\ ~validName_MatchString(f.Alias)
       THEN InvalidNameErr(aliasName, f.Alias)
       ELSE IF f.Alias = <<>> /\ ~validName_MatchString(f.Name)
       THEN InvalidNameErr(fieldName, f.Name)
       ELSE subs(1)

RECURSIVE checkFields_lastError(_, _)
checkFields_lastError(fs, i) ==
    IF i > Len(fs) THEN Nil
    ELSE IF checkFields_lastError(fs, i + 1) # Nil THEN checkFields_lastError(fs, i + 1)
    ELSE IF fs[i] = Nil THEN NilFieldErr
    ELSE Field_check(fs[i])

\* the loop of Query.StringChan over q.Fields, from index i on
RECURSIVE checkFields(_, _)
checkFields(fs, i) ==
    IF i > Len(fs) THEN Nil
    ELSE IF fs[i] = Nil THEN NilFieldErr
    ELSE IF Field_check(fs[i]) # Nil THEN Field_check(fs[i])
    ELSE checkFields(fs, i + 1)

StringChanErr_nilOnlyFirst(q) ==
    IF check(q) # Nil THEN check(q)
    ELSE IF q.Fields # <<>> /\ q.Fields[1] = Nil THEN NilFieldErr
    ELSE LET live == SelectSeq(q.Fields, LAMBDA f : f # Nil)
         IN checkFields(live, 1)

\* the error Query.StringChan returns
StringChanErr(q) ==
    IF check(q) # Nil THEN check(q) ELSE checkFields(q.Fields, 1)

(***************************************************************************)
(* Token production.  The body of a node's goroutine is a straight-line    *)
(* list of steps, its loops unrolled over the node's data: Emit(t) is the  *)
(* send  tokenChan <- t,  Rng(k) is  for str := range child_k.stringChan() *)
(* { tokenChan <- str }.  close(tokenChan) follows the last step.          *)
(***************************************************************************)
Emit(t) == [op |-> "emit", tok |-> t, child |-> 0]
Rng(k) == [op |-> "range", tok |-> <<>>, child |-> k]

Comma_always(i) == <<Emit(<<",">>)>>

\* if i != 0 { tokenChan <- "," }, the index counted from 1
Comma(i) == IF i # 1 THEN <<Emit(<<",">>)>> ELSE <<>>

Query_stringChan_commaBetween(q) ==
    <<Emit(ToLower(q.Type))>>
    \o (IF q.Name # <<>> THEN <<Emit(<<" ">>), Emit(q.Name)>> ELSE <<>>)
    \o <<Emit(<<"{">>)>>
    \o Join([i \in 1..Len(q.Fields) |-> Comma(i) \o <<Rng(i)>>])
    \o <<Emit(<<"}">>)>>

Query_stringChan(q) ==
    <<Emit(ToLower(q.Type))>>
    \o (IF q.Name # <<>> THEN <<Emit(<<" ">>), Emit(q.Name)>> ELSE <<>>)
    \o <<Emit(<<"{">>)>>
    \o Join([i \in 1..Len(q.Fields) |-> <<Rng(i), Emit(<<",">>)>>])
    \o <<Emit(<<"}">>)>>

\* Field.stringChan: [alias ':'] name ['(' args ')'] ['{' subfields '}'];
\* the children of a Field are its Arguments followed by its Fields
Field_stringChan(f) ==
    LET na == Len(f.Arguments)
    IN (IF f.Alias # <<>> THEN <<Emit(f.Alias), Emit(<<":">>)>> ELSE <<>>)
       \o <<Emit(f.Name)>>
       \o (IF na > 0
           THEN <<Emit(<<"(">>)>>
                \o Join([i \in 1..na |-> Comma(i) \o <<Rng(i)>>])
                \o <<Emit(<<")">>)>>
           ELSE <<>>)
       \o (IF Len(f.Fields) > 0
           THEN <<Emit(<<"{">>)>>
                \o Join([i \in 1..Len(f.Fields) |-> Comma(i) \o <<Rng(na + i)>>])
                \o <<Emit(<<"}">>)>>
           ELSE <<>>)

Argument_stringChan(a) == <<Emit(a.Name), Emit(<<":">>), Rng(1)>>

argBool_stringChan(v) == <<Emit(FmtBool(v))>>
argInt_stringChan(v) == <<Emit(FmtInt(v))>>
argString_stringChan(v) == <<Emit(<<DQ>> \o v \o <<DQ>>)>>
argQuotedString_stringChan(v) == <<Emit(<<DQ, BS, BS, DQ>> \o v \o <<BS, BS, DQ, DQ>>)>>
argBlockString_stringChan(v) == <<Emit(<<DQ, DQ, DQ>> \o v \o <<DQ, DQ, DQ>>)>>
argEnum_stringChan(v) == <<Emit(v)>>
argTime_stringChan(v) == <<Emit(<<DQ>> \o FmtRFC3339(v) \o <<DQ>>)>>

argBoolSlice_stringChan(s) ==
    <<Emit(<<"[">>)>>
    \o Join([i \in 1..Len(s) |-> Comma(i) \o <<Emit(FmtBool(s[i]))>>])
    \o <<Emit(<<"]">>)>>

argIntSlice_stringChan(s) ==
    <<Emit(<<"[">>)>>
    \o Join([i \in 1..Len(s) |-> Comma(i) \o <<Emit(FmtInt(s[i]))>>])
    \o <<Emit(<<"]">>)>>

argStringSlice_stringChan(s) ==
    <<Emit(<<"[">>)>>
    \o Join([i \in 1..Len(s) |-> Comma(i) \o <<Emit(<<DQ>> \o s[i] \o <<DQ>>)>>])
    \o <<Emit(<<"]">>)>>

argEnumSlice_stringChan(s) ==
    <<Emit(<<"[">>)>>
    \o Join([i \in 1..Len(s) |-> Comma(i) \o <<Emit(s[i])>>])
    \o <<Emit(<<"]">>)>>

argumentCustom_stringChan(s) ==
    <<Emit(<<"{">>)>>
    \o Join([i \in 1..Len(s) |-> Comma(i) \o <<Rng(i)>>])
    \o <<Emit(<<"}">>)>>

argArgSlice_stringChan(s) ==
    <<Emit(<<"[">>)>>
    \o Join([i \in 1..Len(s) |-> Comma(i) \o <<Rng(i)>>])
    \o <<Emit(<<"]">>)>>

\* dynamic dispatch of stringChan on the node
stringChan(n) ==
    CASE n.kind = "Query" -> Query_stringChan(n)
      [] n.kind = "Field" -> Field_stringChan(n)
      [] n.kind = "Argument" -> Argument_stringChan(n)
      [] n.kind = "argBool" -> argBool_stringChan(n.v)
      [] n.kind = "argInt" -> argInt_stringChan(n.v)
      [] n.kind = "argString" -> argString_stringChan(n.v)
      [] n.kind = "argQuotedString" -> argQuotedString_stringChan(n.v)
      [] n.kind = "argBlockString" -> argBlockString_stringChan(n.v)
      [] n.kind = "argEnum" -> argEnum_stringChan(n.v)
      [] n.kind = "argTime" -> argTime_stringChan(n.v)
      [] n.kind = "argBoolSlice" -> argBoolSlice_stringChan(n.v)
      [] n.kind = "argIntSlice" -> argIntSlice_stringChan(n.v)
      [] n.kind = "argStringSlice" -> argStringSlice_stringChan(n.v)
      [] n.kind = "argEnumSlice" -> argEnumSlice_stringChan(n.v)
      [] n.kind = "argumentCustom" -> argumentCustom_stringChan(n.v)
      [] n.kind = "argArgSlice" -> argArgSlice_stringChan(n.v)

\* the receiver of the k-th stringChan call a node's goroutine makes
Child(n, k) ==
    CASE n.kind = "Query" -> n.Fields[k]
      [] n.kind = "Field" ->
             IF k <= Len(n.Arguments) THEN n.Arguments[k]
             ELSE n.Fields[k - Len(n.Arguments)]
      [] n.kind = "Argument" -> n.Value
      [] n.kind = "argumentCustom" -> n.v[k]
      [] n.kind = "argArgSlice" -> argumentCustom(n.v[k])

RECURSIVE NodeAt(_, _)
NodeAt(n, path) ==
    IF path = <<>> THEN n ELSE NodeAt(Child(n, Head(path)), Tail(path))

(***************************************************************************)
(* The explored Queries.                                                   *)
(***************************************************************************)
NameAlphabet == {"a", "Z", "_", "1", " ", "-"}
Names == SeqsUpTo(NameAlphabet, MaxNameLen)
Types == {<<>>, TypeQuery, TypeMutation, TypeSubscription, <<"Q","u","e","r","y">>}

Bools == {TRUE, FALSE}
Ints == {0, 12, -7}
Strings == {<<>>, <<"a">>, <<DQ>>}
Enums == {<<"A">>, <<"b","c">>}
Times == {[year |-> 2006, month |-> 1, day |-> 2, hour |-> 15, min |-> 4, sec |-> 5, off |-> 0],
          [year |-> 987, month |-> 11, day |-> 30, hour |-> 0, min |-> 59, sec |-> 10, off |-> -330]}

ScalarValues ==
    {argBool(b) : b \in Bools} \cup {argInt(i) : i \in Ints}
    \cup {argString(x) : x \in Strings} \cup {argQuotedString(x) : x \in Strings}
    \cup {argBlockString(x) : x \in Strings} \cup {argEnum(e) : e \in Enums}
    \cup {argTime(t) : t \in Times}

SliceValues ==
    {argBoolSlice(x) : x \in SeqsUpTo(Bools, MaxSlice)}
    \cup {argIntSlice(x) : x \in SeqsUpTo(Ints, MaxSlice)}
    \cup {argStringSlice(x) : x \in SeqsUpTo(Strings, MaxSlice)}
    \cup {argEnumSlice(x) : x \in SeqsUpTo(Enums, MaxSlice)}

argA == Argument(<<"a">>, argInt(1))
argB == Argument(<<"b">>, argBool(TRUE))
argNoValue == Argument(<<"x">>, Nil)
argXs == Argument(<<"x","s">>, argIntSlice(<<>>))
argObj == Argument(<<"o","b","j">>, argumentCustom(<<argA, argB>>))

ArgLists == SeqsUpTo({argA, argB, argNoValue}, MaxSlice) \cup {<<argXs>>, <<argObj, argA>>}

NestedValues ==
    {argumentCustom(x) : x \in ArgLists}
    \cup {argArgSlice(x) : x \in SeqsUpTo({<<>>, <<argA>>, <<argA, argB>>}, MaxSlice)}
    \cup {argArgSlice(<<<<argObj>>, <<argNoValue>>>>), Nil}

Values == ScalarValues \cup SliceValues \cup NestedValues

fieldA == Field(<<"a">>, <<>>, <<>>, <<>>)
fieldB == Field(<<"b">>, <<"x">>, <<>>, <<>>)
fieldBar == Field(<<"b","a","r">>, <<>>, <<Argument(<<"n">>, argInt(1))>>, <<>>)
fieldDeep ==
    Field(<<"c">>, <<>>, <<argXs, argObj>>, <<fieldB, Field(<<"d">>, <<>>, <<>>, <<fieldA>>)>>)
fieldBadName == Field(<<"1","a">>, <<>>, <<>>, <<>>)
fieldBadAlias == Field(<<"a">>, <<"a","-">>, <<>>, <<>>)
fieldNilSub == Field(<<"a">>, <<>>, <<>>, <<fieldB, Nil>>)
fieldBadSub == Field(<<"a">>, <<>>, <<>>, <<fieldBadName>>)

TopFields == {fieldA, fieldDeep, fieldBadName, Nil}
OtherFields == {fieldB, fieldBar, fieldBadAlias, fieldNilSub, fieldBadSub}

Queries ==
    \* every type and name, over a few field lists
    {Query(t, n, fs) : t \in Types, n \in Names, fs \in {<<>>, <<fieldA>>, <<Nil>>}}
    \* every short list of top-level fields
    \cup {Query(t, n, fs) : t \in Types, n \in {<<>>, <<"Z","a">>},
                            fs \in SeqsUpTo(TopFields, MaxFields)}
    \cup {Query(TypeQuery, <<>>, <<f>>) : f \in OtherFields}
    \cup {Query(TypeMutation, <<"Z","a">>, <<fieldBar, f>>) : f \in OtherFields}
    \* every argument value
    \cup {Query(TypeQuery, <<>>, <<Field(<<"f">>, <<>>, <<Argument(<<"v">>, v)>>, <<>>)>>) :
             v \in Values}

(***************************************************************************)
(* State.                                                                  *)
(***************************************************************************)
VARIABLES
    q,         \* the Query
    pc,        \* the caller: "start", "range" (receiving from the channel), "done"
    api,       \* the entry point called: "none", "StringChan", "JsonBody"
    checkErr,  \* what q.check() returned inside StringChan
    err,       \* the error returned to the caller
    retChan,   \* the channel StringChan returned: "none", "ch" (closed, made at
               \* the top of StringChan) or "tokenChan" (the root producer's)
    procs,     \* the goroutines started, by the path of their node
    strs,      \* the tokens the caller has received
    body,      \* the string JsonBody returned
    crashed,   \* a goroutine panicked: the program is gone
    anyIn,     \* the name and the interface{} value handed to ArgumentAny
    anyOut,    \* the Argument and the error ArgumentAny returned
    log,       \* the SetName, SetFields and AddFields calls made on q, in order
    calls,     \* the number of earlier StringChan and JsonBody calls on q
    prev       \* the outcome of the call before the current one

aux == <<anyIn, anyOut, log, calls, prev>>

vars == <<q, pc, api, checkErr, err, retChan, procs, strs, body, crashed, aux>>

NoAny == [kind |-> "none"]

NoBody == <<"?">>

\* a goroutine right after  go func() {...}():  pc is its position in the
\* body, st is "run", "recv" (blocked receiving from its child), "fwd"
\* (holding str, to be sent on), "done" or "panic"; closed is the state of
\* its tokenChan and sent is what it has sent on it
NewProc == [pc |-> 1, st |-> "run", str |-> <<>>, closed |-> FALSE, sent |-> <<>>]

Body(p) == stringChan(NodeAt(q, p))
Instr(p) == Body(p)[procs[p].pc]
AtEnd(p) == procs[p].pc = Len(Body(p)) + 1
Parent(p) == SubSeq(p, 1, Len(p) - 1)

InitOver(Q) ==
    /\ q \in Q
    /\ pc = "start"
    /\ api = "none"
    /\ checkErr = Nil
    /\ err = Nil
    /\ retChan = "none"
    /\ procs = <<>>
    /\ strs = <<>>
    /\ body = NoBody
    /\ crashed = FALSE
    /\ anyIn = NoAny
    /\ anyOut = NoAny
    /\ log = <<>>
    /\ calls = 0
    /\ prev = NoAny

Init == InitOver(Queries)

\* the Queries of the fair behaviours
FairQueries ==
    {Query(TypeQuery, <<"Z","a">>, <<fieldDeep, fieldA>>),
     Query(TypeQuery, <<>>, <<>>),
     Query(TypeMutation, <<>>, <<Nil>>),
     Query(TypeQuery, <<>>, <<Field(<<"f">>, <<>>, <<argNoValue>>, <<>>)>>),
     Query(TypeQuery, <<>>, <<Field(<<"f">>, <<>>, <<argObj, argNoValue>>, <<>>)>>)}

FairInit == InitOver(FairQueries)

(***************************************************************************)
(* The entry points.                                                       *)
(***************************************************************************)
Call_startFirst ==
    /\ checkErr' = check(q)
    /\ err' = StringChanErr(q)
    /\ retChan' = (IF StringChanErr(q) # Nil THEN "ch" ELSE "tokenChan")
    /\ procs' = (<<>> :> NewProc)

\* Query.StringChan: validate, then either hand back the closed ch with the
\* error, or start the root producer and hand back its tokenChan
Call ==
    /\ checkErr' = check(q)
    /\ err' = StringChanErr(q)
    /\ IF StringChanErr(q) # Nil
       THEN retChan' = "ch" /\ procs' = <<>>
       ELSE retChan' = "tokenChan" /\ procs' = (<<>> :> NewProc)

StringChan_lowersType ==
    /\ pc = "start"
    /\ ~crashed
    /\ api' = "StringChan"
    /\ Call
    /\ pc' = "range"
    /\ q' = [q EXCEPT !.Type = ToLower(@)]
    /\ UNCHANGED <<strs, body, crashed>>
    /\ UNCHANGED aux

StringChan ==
    /\ pc = "start"
    /\ ~crashed
    /\ api' = "StringChan"
    /\ Call
    /\ pc' = "range"
    /\ UNCHANGED <<q, strs, body, crashed>>
    /\ UNCHANGED aux

Sprintf_query(s) == <<"{", DQ, "q", "u", "e", "r", "y", DQ, ":", DQ>> \o s \o <<DQ, "}">>

\* Query.JsonBody up to the call of StringFromChan
JsonBody ==
    /\ pc = "start"
    /\ ~crashed
    /\ api' = "JsonBody"
    /\ Call
    /\ IF StringChanErr(q) # Nil
       THEN pc' = "done" /\ body' = <<>>
       ELSE pc' = "range" /\ body' = body
    /\ UNCHANGED <<q, strs, crashed>>
    /\ UNCHANGED aux

(***************************************************************************)
(* The goroutines.                                                         *)
(***************************************************************************)
\* child.stringChan(): make the channel, start the goroutine, then block in
\* the range over the channel
Go(p) ==
    /\ ~crashed
    /\ p \in DOMAIN procs
    /\ procs[p].st = "run"
    /\ ~AtEnd(p)
    /\ Instr(p).op = "range"
    /\ Child(NodeAt(q, p), Instr(p).child).kind # "nil"
    /\ procs' = [procs EXCEPT ![p].st = "recv"] @@ (Append(p, Instr(p).child) :> NewProc)
    /\ UNCHANGED <<q, pc, api, checkErr, err, retChan, strs, body, crashed>>
    /\ UNCHANGED aux

\* a.Value.stringChan() on a nil interface value: nil pointer dereference;
\* a panic in a goroutine ends the program
Panic(p) ==
    /\ ~crashed
    /\ p \in DOMAIN procs
    /\ procs[p].st = "run"
    /\ ~AtEnd(p)
    /\ Instr(p).op = "range"
    /\ Child(NodeAt(q, p), Instr(p).child).kind = "nil"
    /\ procs' = [procs EXCEPT ![p].st = "panic"]
    /\ crashed' = TRUE
    /\ UNCHANGED <<q, pc, api, checkErr, err, retChan, strs, body>>
    /\ UNCHANGED aux

\* the token a goroutine is blocked sending
HasToken(p) ==
    \/ procs[p].st = "fwd"
    \/ procs[p].st = "run" /\ ~AtEnd(p) /\ Instr(p).op = "emit"

Token(p) == IF procs[p].st = "fwd" THEN procs[p].str ELSE Instr(p).tok

\* the sender after its send completed
Sent(pr, tok) ==
    IF pr.st = "fwd"
    THEN [pr EXCEPT !.st = "recv", !.sent = Append(@, tok)]
    ELSE [pr EXCEPT !.pc = @ + 1, !.sent = Append(@, tok)]

Received_stale(pr, tok) == [pr EXCEPT !.st = "fwd"]

\* the receiving goroutine after  str := <-child's channel
Received(pr, tok) == [pr EXCEPT !.st = "fwd", !.str = tok]

\* an unbuffered send meeting the receive of the parent goroutine
Send(p) ==
    /\ ~crashed
    /\ p \in DOMAIN procs
    /\ p # <<>>
    /\ HasToken(p)
    /\ procs[Parent(p)].st = "recv"
    /\ procs' = [procs EXCEPT ![p] = Sent(@, Token(p)),
                              ![Parent(p)] = Received(@, Token(p))]
    /\ UNCHANGED <<q, pc, api, checkErr, err, retChan, strs, body, crashed>>
    /\ UNCHANGED aux

Close_keepsRunning(p) ==
    /\ ~crashed
    /\ p \in DOMAIN procs
    /\ procs[p].st = "run"
    /\ AtEnd(p)
    /\ procs' = [procs EXCEPT ![p].closed = TRUE]
    /\ UNCHANGED <<q, pc, api, checkErr, err, retChan, strs, body, crashed>>
    /\ UNCHANGED aux

\* close(tokenChan), the last statement of every goroutine
Close(p) ==
    /\ ~crashed
    /\ p \in DOMAIN procs
    /\ procs[p].st = "run"
    /\ AtEnd(p)
    /\ procs' = [procs EXCEPT ![p].st = "done", ![p].closed = TRUE]
    /\ UNCHANGED <<q, pc, api, checkErr, err, retChan, strs, body, crashed>>
    /\ UNCHANGED aux

RangeEnd_early(p) ==
    /\ ~crashed
    /\ p \in DOMAIN procs
    /\ procs[p].st = "recv"
    /\ procs' = [procs EXCEPT ![p].st = "run", ![p].pc = @ + 1]
    /\ UNCHANGED <<q, pc, api, checkErr, err, retChan, strs, body, crashed>>
    /\ UNCHANGED aux

\* the range over the child's channel ends: the channel is closed
RangeEnd(p) ==
    /\ ~crashed
    /\ p \in DOMAIN procs
    /\ procs[p].st = "recv"
    /\ procs[Append(p, Instr(p).child)].closed
    /\ procs' = [procs EXCEPT ![p].st = "run", ![p].pc = @ + 1]
    /\ UNCHANGED <<q, pc, api, checkErr, err, retChan, strs, body, crashed>>
    /\ UNCHANGED aux

(***************************************************************************)
(* The caller receiving from the returned channel: the client's range      *)
(* loop after StringChan, StringFromChan inside JsonBody.                  *)
(***************************************************************************)
Collected_skip(ss, tok) == ss

\* strs = append(strs, str)
Collected(ss, tok) == Append(ss, tok)

Recv_buffered ==
    /\ ~crashed
    /\ pc \in {"range", "stopped"}
    /\ retChan = "tokenChan"
    /\ HasToken(<<>>)
    /\ strs' = Collected(strs, Token(<<>>))
    /\ procs' = [procs EXCEPT ![<<>>] = Sent(@, Token(<<>>))]
    /\ UNCHANGED <<q, pc, api, checkErr, err, retChan, body, crashed>>
    /\ UNCHANGED aux

Recv ==
    /\ ~crashed
    /\ pc = "range"
    /\ retChan = "tokenChan"
    /\ HasToken(<<>>)
    /\ strs' = Collected(strs, Token(<<>>))
    /\ procs' = [procs EXCEPT ![<<>>] = Sent(@, Token(<<>>))]
    /\ UNCHANGED <<q, pc, api, checkErr, err, retChan, body, crashed>>
    /\ UNCHANGED aux

\* strings.Join(strs, "")
StringFromChan(ss) == Join(ss)

JsonBodyResult_noEscape(ss) == Sprintf_query(StringFromChan(ss))

JsonBodyResult(ss) == Sprintf_query(ReplaceQuotes(StringFromChan(ss)))

RecvClosed ==
    /\ ~crashed
    /\ pc = "range"
    /\ \/ retChan = "ch"
       \/ retChan = "tokenChan" /\ procs[<<>>].closed
    /\ pc' = "done"
    /\ body' = IF api = "JsonBody" THEN JsonBodyResult(strs) ELSE body
    /\ UNCHANGED <<q, api, checkErr, err, retChan, procs, strs, crashed>>
    /\ UNCHANGED aux

Next ==
    \/ StringChan
    \/ JsonBody
    \/ \E p \in DOMAIN procs : Go(p)
    \/ \E p \in DOMAIN procs : Panic(p)
    \/ \E p \in DOMAIN procs : Send(p)
    \/ \E p \in DOMAIN procs : Close(p)
    \/ \E p \in DOMAIN procs : RangeEnd(p)
    \/ Recv
    \/ RecvClosed

Spec == Init /\ [][Next]_vars

\* the Go scheduler runs every goroutine that can run, and the caller keeps
\* receiving
FairSpec == FairInit /\ [][Next]_vars /\ WF_vars(Next)

(***************************************************************************)
(* Properties.                                                             *)
(***************************************************************************)
ValidTypes == {TypeQuery, TypeMutation, TypeSubscription}
Node(p) == NodeAt(q, p)
Kids(p) == {c \in DOMAIN procs : Len(c) = Len(p) + 1 /\ Parent(c) = p}

\* the body of a node run synchronously, a child's body in place of the
\* range over its channel; ok is FALSE when the run hits a nil value
RECURSIVE DepthFirst(_)
DepthFirst(n) ==
    LET code == stringChan(n)
        RECURSIVE run(_, _)
        run(i, acc) ==
            IF i > Len(code) THEN [toks |-> acc, ok |-> TRUE]
            ELSE IF code[i].op = "emit" THEN run(i + 1, Append(acc, code[i].tok))
            ELSE LET c == Child(n, code[i].child)
                 IN IF c.kind = "nil" THEN [toks |-> acc, ok |-> FALSE]
                    ELSE LET r == DepthFirst(c)
                         IN IF r.ok THEN run(i + 1, acc \o r.toks)
                            ELSE [toks |-> acc \o r.toks, ok |-> FALSE]
    IN run(1, <<>>)

\* C1: under every interleaving the caller receives the tokens of the
\* synchronous depth-first traversal, in its order: what it holds is always a
\* prefix of that sequence, and the whole of it once the channel is closed
C1_DepthFirstOrder ==
    retChan = "tokenChan" =>
        /\ IsPrefix(strs, DepthFirst(q).toks)
        /\ pc = "done" => (DepthFirst(q).ok /\ strs = DepthFirst(q).toks)

C1_Witness ==
    /\ pc = "done"
    /\ retChan = "tokenChan"
    /\ Len(q.Fields) = 2
    /\ \E p \in DOMAIN procs : Len(p) >= 4
    /\ strs = DepthFirst(q).toks

\* C2: after StringChan returned a nil error the caller, who keeps
\* receiving, eventually sees the channel closed
C2_EventuallyClosed == (pc = "range" /\ err = Nil) ~> (pc = "done")

\* C3: when StringChan returns an error no goroutine was started and no
\* token is ever received from the returned channel
C3_NothingOnError ==
    err # Nil => (DOMAIN procs = {} /\ strs = <<>> /\ retChan = "ch")

C3_Witness ==
    /\ err = NilFieldErr
    /\ api = "StringChan"
    /\ pc = "done"
    /\ strs = <<>>

\* the fields' token streams with sep between consecutive streams
RECURSIVE JoinWith(_, _)
JoinWith(ss, sep) ==
    IF ss = <<>> THEN <<>>
    ELSE IF Len(ss) = 1 THEN ss[1]
    ELSE ss[1] \o <<sep>> \o JoinWith(Tail(ss), sep)

Header == <<q.Type>> \o (IF q.Name # <<>> THEN <<<<" ">>, q.Name>> ELSE <<>>) \o <<<<"{">>>>

Rendered == pc = "done" /\ retChan = "tokenChan"

\* C4 as stated: keyword[ name]{field(,field)*}, a ',' only between
\* consecutive top-level fields and none before the closing '}'
C4_SeparatorOnlyBetween ==
    Rendered =>
        /\ q.Type \in ValidTypes
        /\ q.Fields # <<>>
        /\ strs = Header
                  \o JoinWith([i \in 1..Len(q.Fields) |-> procs[<<i>>].sent], <<",">>)
                  \o <<<<"}">>>>

\* C4, amended: keyword[ name]{(field,)*}: every top-level field, the last
\* one included, is followed by one ','
C4_SeparatorAfterEach ==
    Rendered =>
        /\ q.Type \in ValidTypes
        /\ strs = Header
                  \o Join([i \in 1..Len(q.Fields) |-> Append(procs[<<i>>].sent, <<",">>)])
                  \o <<<<"}">>>>
        /\ q.Fields # <<>> => strs[Len(strs) - 1] = <<",">>

C4_Witness ==
    /\ Rendered
    /\ Len(q.Fields) = 2
    /\ q.Name # <<>>
    /\ strs[Len(strs) - 1] = <<",">>
    /\ strs[Len(strs)] = <<"}">>

ScalarSlices == {"argBoolSlice", "argIntSlice", "argStringSlice", "argEnumSlice"}

\* the text of one element of a list of scalars
ElemText(k, x) ==
    CASE k = "argBoolSlice" -> FmtBool(x)
      [] k = "argIntSlice" -> FmtInt(x)
      [] k = "argStringSlice" -> <<DQ>> \o x \o <<DQ>>
      [] k = "argEnumSlice" -> x

\* what a list of n scalars has sent once its channel is closed
ScalarSliceShape(p) ==
    LET n == Len(Node(p).v)
        s == procs[p].sent
    IN /\ Len(s) = IF n = 0 THEN 2 ELSE 2 * n + 1
       /\ s[1] = <<"[">>
       /\ s[Len(s)] = <<"]">>
       /\ \A i \in 1..n : s[2 * i] = ElemText(Node(p).kind, Node(p).v[i])
       /\ \A i \in 1..(n - 1) : s[2 * i + 1] = <<",">>

\* what a list of n nested values has sent once its channel is closed, in
\* terms of what its n children have sent
NestedShape(p, open, close) ==
    LET n == Len(Node(p).v)
        s == procs[p].sent
    IN /\ Cardinality(Kids(p)) = n
       /\ \A c \in Kids(p) : procs[c].closed
       /\ s = <<open>>
              \o JoinWith([i \in 1..n |-> procs[Append(p, i)].sent], <<",">>)
              \o <<close>>
       /\ n = 0 => Join(s) = open \o close

ArgumentShape(p) ==
    /\ procs[Append(p, 1)].closed
    /\ procs[p].sent = <<Node(p).Name, <<":">>>> \o procs[Append(p, 1)].sent
    /\ Node(p) = argXs => Join(procs[p].sent) = <<"x","s",":","[","]">>
    /\ Node(p) = argObj =>
           Join(procs[p].sent) =
               <<"o","b","j",":","{","a",":","1",",","b",":","t","r","u","e","}">>

\* C5: a list-like value of n elements sends its opening bracket, the n
\* elements with a ',' strictly between consecutive elements and its closing
\* bracket; an empty one sends [] (or {}); an Argument sends name, ':' and
\* then its value
C5_ListShape ==
    \A p \in DOMAIN procs :
        procs[p].closed =>
            CASE Node(p).kind \in ScalarSlices -> ScalarSliceShape(p)
              [] Node(p).kind = "argumentCustom" -> NestedShape(p, <<"{">>, <<"}">>)
              [] Node(p).kind = "argArgSlice" -> NestedShape(p, <<"[">>, <<"]">>)
              [] Node(p).kind = "Argument" -> ArgumentShape(p)
              [] OTHER -> TRUE

C5_Witness ==
    \E p \in DOMAIN procs :
        /\ procs[p].closed
        /\ Node(p) = argObj
        /\ Len(procs[p].sent) = 11
        /\ \E p2 \in DOMAIN procs :
               /\ procs[p2].closed
               /\ Node(p2).kind = "argIntSlice"
               /\ Len(Node(p2).v) = 0

\* C6: once validation has passed no goroutine crashes, whatever tree the
\* public constructors and struct fields built
C6_NeverPanics == \A p \in DOMAIN procs : procs[p].st # "panic"

\* C7: an empty or unknown operation type fails with InvalidOperationTypeErr
\* carrying the type, whatever the name and the fields, and nothing is
\* produced
C7_InvalidType ==
    (pc # "start" /\ q.Type \notin ValidTypes) =>
        /\ checkErr = InvalidOperationTypeErr(q.Type)
        /\ err = InvalidOperationTypeErr(q.Type)
        /\ DOMAIN procs = {}
        /\ strs = <<>>
        /\ api = "JsonBody" => body = <<>>

C7_Witness ==
    /\ pc = "done"
    /\ q.Type = <<>>
    /\ q.Name = <<"1", "-">>
    /\ q.Fields = <<Nil>>
    /\ err = InvalidOperationTypeErr(<<>>)

\* the name grammar ^[_A-Za-z][_0-9A-Za-z]*$
InGrammar(n) ==
    /\ Len(n) >= 1
    /\ n[1] \in NameStart
    /\ \A i \in 2..Len(n) : n[i] \in NameStart \cup Range(DigitChars)

\* C8: with a valid operation type, check succeeds on an empty name and on a
\* name of the grammar, and fails with InvalidNameErr(operation name, text)
\* on any other name
C8_OperationName ==
    (pc # "start" /\ q.Type \in ValidTypes) =>
        IF q.Name = <<>> \/ InGrammar(q.Name)
        THEN checkErr = Nil
        ELSE checkErr = InvalidNameErr(operationName, q.Name) /\ err = checkErr

C8_Witness ==
    /\ pc # "start"
    /\ q.Type = TypeSubscription
    /\ q.Name = <<"a", " ">>
    /\ checkErr = InvalidNameErr(operationName, <<"a", " ">>)

\* C9: with a valid type and name, a nil entry of Fields after fields that
\* all pass their own check fails with NilFieldErr, and nothing is produced
C9_NilField ==
    (/\ pc # "start"
     /\ q.Type \in ValidTypes
     /\ q.Name = <<>> \/ InGrammar(q.Name)
     /\ \E i \in 1..Len(q.Fields) :
            /\ q.Fields[i] = Nil
            /\ \A j \in 1..(i - 1) : q.Fields[j] # Nil /\ Field_check(q.Fields[j]) = Nil)
    => (err = NilFieldErr /\ DOMAIN procs = {} /\ strs = <<>>)

C9_Witness ==
    /\ pc = "done"
    /\ Len(q.Fields) = 2
    /\ q.Fields[1] # Nil
    /\ q.Fields[2] = Nil
    /\ err = NilFieldErr

\* e is t with a backslash put before every double quote
RECURSIVE IsEscapeOf(_, _)
IsEscapeOf(e, t) ==
    IF t = <<>> THEN e = <<>>
    ELSE IF t[1] = DQ
    THEN Len(e) >= 2 /\ e[1] = BS /\ e[2] = DQ /\ IsEscapeOf(SubSeq(e, 3, Len(e)), Tail(t))
    ELSE Len(e) >= 1 /\ e[1] = t[1] /\ IsEscapeOf(Tail(e), Tail(t))

\* C10: JsonBody returns {"query":"T'"} for the text T of all the tokens of
\* the channel, T' being T with every double quote escaped; on an invalid
\* Query it returns the empty string and the validation error
C10_JsonBody ==
    (api = "JsonBody" /\ pc = "done") =>
        IF err = Nil
        THEN /\ procs[<<>>].closed
             /\ Len(body) >= 12
             /\ SubSeq(body, 1, 10) = <<"{", DQ, "q", "u", "e", "r", "y", DQ, ":", DQ>>
             /\ SubSeq(body, Len(body) - 1, Len(body)) = <<DQ, "}">>
             /\ IsEscapeOf(SubSeq(body, 11, Len(body) - 2), Join(procs[<<>>].sent))
        ELSE body = <<>> /\ retChan = "ch"

C10_Witness ==
    /\ api = "JsonBody"
    /\ pc = "done"
    /\ err = Nil
    /\ DQ \in Range(Join(strs))
    /\ Len(body) > 12 + Len(Join(strs))

(***************************************************************************)
(* ArgumentAny.  An interface{} value is its dynamic type and its value.   *)
(***************************************************************************)
Dyn(t, v) == [type |-> t, val |-> v]

ArgumentTypeNotSupportedErr(v) == [kind |-> "ArgumentTypeNotSupportedErr", Value |-> v]

ArgumentBool(name, value) == Argument(name, argBool(value))
ArgumentInt(name, value) == Argument(name, argInt(value))
ArgumentString(name, value) == Argument(name, argString(value))
ArgumentQuotedString(name, value) == Argument(name, argQuotedString(value))
ArgumentBlockString(name, value) == Argument(name, argBlockString(value))
ArgumentEnum(name, value) == Argument(name, argEnum(value))
ArgumentTime(name, value) == Argument(name, argTime(value))
ArgumentBoolSlice(name, values) == Argument(name, argBoolSlice(values))
ArgumentIntSlice(name, values) == Argument(name, argIntSlice(values))
ArgumentStringSlice(name, values) == Argument(name, argStringSlice(values))
ArgumentEnumSlice(name, values) == Argument(name, argEnumSlice(values))
ArgumentCustomType(name, values) == Argument(name, argumentCustom(values))
ArgumentSlice(name, values) == Argument(name, argArgSlice(values))

\* Argument{}
ZeroArgument == Argument(<<>>, Nil)

Returned(a, e) == [arg |-> a, err |-> e]

ArgumentAny_stringAsEnum(name, value) ==
    CASE value.type = "bool" -> Returned(ArgumentBool(name, value.val), Nil)
      [] value.type = "[]bool" -> Returned(ArgumentBoolSlice(name, value.val), Nil)
      [] value.type = "int" -> Returned(ArgumentInt(name, value.val), Nil)
      [] value.type = "[]int" -> Returned(ArgumentIntSlice(name, value.val), Nil)
      [] value.type = "string" -> Returned(ArgumentEnum(name, value.val), Nil)
      [] value.type = "[]string" -> Returned(ArgumentStringSlice(name, value.val), Nil)
      [] value.type = "time.Time" -> Returned(ArgumentTime(name, value.val), Nil)
      [] OTHER -> Returned(ZeroArgument, ArgumentTypeNotSupportedErr(value))

ArgumentAny_int64AsInt(name, value) ==
    CASE value.type = "bool" -> Returned(ArgumentBool(name, value.val), Nil)
      [] value.type = "[]bool" -> Returned(ArgumentBoolSlice(name, value.val), Nil)
      [] value.type \in {"int", "int64"} -> Returned(ArgumentInt(name, value.val), Nil)
      [] value.type = "[]int" -> Returned(ArgumentIntSlice(name, value.val), Nil)
      [] value.type = "string" -> Returned(ArgumentString(name, value.val), Nil)
      [] value.type = "[]string" -> Returned(ArgumentStringSlice(name, value.val), Nil)
      [] value.type = "time.Time" -> Returned(ArgumentTime(name, value.val), Nil)
      [] OTHER -> Returned(ZeroArgument, ArgumentTypeNotSupportedErr(value))

\* switch v := value.(type)
ArgumentAny(name, value) ==
    CASE value.type = "bool" -> Returned(ArgumentBool(name, value.val), Nil)
      [] value.type = "[]bool" -> Returned(ArgumentBoolSlice(name, value.val), Nil)
      [] value.type = "int" -> Returned(ArgumentInt(name, value.val), Nil)
      [] value.type = "[]int" -> Returned(ArgumentIntSlice(name, value.val), Nil)
      [] value.type = "string" -> Returned(ArgumentString(name, value.val), Nil)
      [] value.type = "[]string" -> Returned(ArgumentStringSlice(name, value.val), Nil)
      [] value.type = "time.Time" -> Returned(ArgumentTime(name, value.val), Nil)
      [] OTHER -> Returned(ZeroArgument, ArgumentTypeNotSupportedErr(value))

\* the explored interface{} values: every supported dynamic type, and types
\* outside the switch (other widths, a named int type, pointers, nil, ...)
AnyValues ==
    {Dyn("bool", b) : b \in Bools}
    \cup {Dyn("[]bool", x) : x \in SeqsUpTo(Bools, MaxSlice)}
    \cup {Dyn("int", i) : i \in Ints}
    \cup {Dyn("[]int", x) : x \in SeqsUpTo(Ints, MaxSlice)}
    \cup {Dyn("string", x) : x \in Strings}
    \cup {Dyn("[]string", x) : x \in SeqsUpTo(Strings, MaxSlice)}
    \cup {Dyn("time.Time", t) : t \in Times}
    \cup {Dyn("int64", i) : i \in Ints}
    \cup {Dyn("float64", 1), Dyn("uint", 12), Dyn("myInt", 12), Dyn("nil", 0),
          Dyn("*bool", TRUE), Dyn("[]int32", <<0>>), Dyn("[]interface{}", <<>>),
          Dyn("*time.Time", 0), Dyn("Argument", 0)}

AnyNames == {<<>>, <<"a">>, <<"x", "s">>}

AnyInit ==
    /\ q = ZeroArgument
    /\ pc = "start"
    /\ api = "none"
    /\ checkErr = Nil
    /\ err = Nil
    /\ retChan = "none"
    /\ procs = <<>>
    /\ strs = <<>>
    /\ body = NoBody
    /\ crashed = FALSE
    /\ anyIn \in {[name |-> n, value |-> v] : n \in AnyNames, v \in AnyValues}
    /\ anyOut = NoAny
    /\ log = <<>>
    /\ calls = 0
    /\ prev = NoAny

\* a, err := ArgumentAny(name, value)
CallArgumentAny ==
    /\ anyOut = NoAny
    /\ anyOut' = ArgumentAny(anyIn.name, anyIn.value)
    /\ q' = ArgumentAny(anyIn.name, anyIn.value).arg
    /\ UNCHANGED <<pc, api, checkErr, err, retChan, procs, strs, body, crashed,
                   anyIn, log, calls, prev>>

\* a.stringChan() on the Argument returned without an error, the caller
\* ranging over the channel
RenderArgument ==
    /\ anyOut # NoAny
    /\ anyOut.err = Nil
    /\ pc = "start"
    /\ api' = "stringChan"
    /\ retChan' = "tokenChan"
    /\ procs' = (<<>> :> NewProc)
    /\ pc' = "range"
    /\ UNCHANGED <<q, checkErr, err, strs, body, crashed, aux>>

AnyNext ==
    \/ CallArgumentAny
    \/ RenderArgument
    \/ \E p \in DOMAIN procs : Go(p)
    \/ \E p \in DOMAIN procs : Send(p)
    \/ \E p \in DOMAIN procs : Close(p)
    \/ \E p \in DOMAIN procs : RangeEnd(p)
    \/ Recv
    \/ RecvClosed

AnySpec == AnyInit /\ [][AnyNext]_vars

SupportedTypes == {"bool", "int", "string", "time.Time", "[]bool", "[]int", "[]string"}

\* the Argument of the explicit constructor for a supported value
Explicit(name, value) ==
    IF value.type = "bool" THEN ArgumentBool(name, value.val)
    ELSE IF value.type = "int" THEN ArgumentInt(name, value.val)
    ELSE IF value.type = "string" THEN ArgumentString(name, value.val)
    ELSE IF value.type = "time.Time" THEN ArgumentTime(name, value.val)
    ELSE IF value.type = "[]bool" THEN ArgumentBoolSlice(name, value.val)
    ELSE IF value.type = "[]int" THEN ArgumentIntSlice(name, value.val)
    ELSE ArgumentStringSlice(name, value.val)

\* C11: for a value of a supported type ArgumentAny returns no error and an
\* Argument that renders to the tokens of the explicit constructor for that
\* type, called with the same name and value
C11_AnyAsExplicit ==
    (anyOut # NoAny /\ anyIn.value.type \in SupportedTypes) =>
        /\ anyOut.err = Nil
        /\ IsPrefix(strs, DepthFirst(Explicit(anyIn.name, anyIn.value)).toks)
        /\ pc = "done" => strs = DepthFirst(Explicit(anyIn.name, anyIn.value)).toks
        /\ (pc = "done" /\ anyIn.value = Dyn("string", <<"a">>)) =>
               Join(strs) = anyIn.name \o <<":", DQ, "a", DQ>>

C11_Witness ==
    /\ pc = "done"
    /\ anyIn.value.type = "[]string"
    /\ Len(anyIn.value.val) = 2
    /\ Len(strs) = 7

\* C12: for a value of any other type ArgumentAny returns
\* ArgumentTypeNotSupportedErr carrying the value, and the zero Argument
C12_AnyUnsupported ==
    (anyOut # NoAny /\ anyIn.value.type \notin SupportedTypes) =>
        /\ anyOut.err = ArgumentTypeNotSupportedErr(anyIn.value)
        /\ anyOut.arg.Name = <<>>
        /\ anyOut.arg.Value.kind = "nil"
        /\ q = anyOut.arg
        /\ DOMAIN procs = {}

C12_Witness ==
    /\ anyOut # NoAny
    /\ anyIn.value = Dyn("int64", 12)
    /\ anyOut.err.kind = "ArgumentTypeNotSupportedErr"
    /\ anyOut.arg = ZeroArgument

\* C13: when StringChan returns an error the channel it returns is nil
C13_NilChannelOnError == (pc # "start" /\ err # Nil) => retChan = "nil"

(***************************************************************************)
(* A caller that gives up: it stops receiving from the channel StringChan  *)
(* returned before the channel is closed.                                  *)
(***************************************************************************)
Stop ==
    /\ ~crashed
    /\ pc = "range"
    /\ api = "StringChan"
    /\ retChan = "tokenChan"
    /\ ~procs[<<>>].closed
    /\ pc' = "stopped"
    /\ UNCHANGED <<q, api, checkErr, err, retChan, procs, strs, body, crashed>>
    /\ UNCHANGED aux

StopNext == Next \/ Stop

StopSpec == FairInit /\ [][StopNext]_vars

\* the root producer still has a send to do: its body ends with the send of "}"
RootUnfinished == procs[<<>>].pc <= Len(Body(<<>>))

\* a producer that can take no step any more: it is blocked in a send, and
\* its receiver is the caller who stopped or a producer that is itself stuck
RECURSIVE Stuck(_)
Stuck(p) ==
    /\ HasToken(p)
    /\ IF p = <<>> THEN pc = "stopped" ELSE Stuck(Parent(p))

\* C14: once the caller has stopped receiving, the root producer that still
\* has to send never completes a send and never closes its channel, and the
\* producers stuck behind it stay stuck: there is no way out
C14_BlockedForever ==
    [][(pc = "stopped" /\ RootUnfinished) =>
          /\ pc' = "stopped"
          /\ RootUnfinished'
          /\ procs'[<<>>].sent = procs[<<>>].sent
          /\ ~procs'[<<>>].closed
          /\ \A p \in DOMAIN procs : Stuck(p) => (procs'[p] = procs[p] /\ Stuck(p)')]_vars

C14_Witness ==
    /\ pc = "stopped"
    /\ procs[<<>>].st = "fwd"
    /\ Cardinality({p \in DOMAIN procs : Stuck(p)}) >= 3
    /\ \A p \in DOMAIN procs : procs[p].st # "done" => Stuck(p)

\* the first top-level field that is nil or fails its own check, 0 if none
FirstBadField ==
    LET bad == {i \in 1..Len(q.Fields) :
                   q.Fields[i].kind = "nil" \/ Field_check(q.Fields[i]) # Nil}
    IN IF bad = {} THEN 0 ELSE CHOOSE i \in bad : \A j \in bad : i <= j

\* C16: StringChan returns the first error in the order operation type,
\* operation name, top-level fields by index (nil, then the field's check)
C16_FirstError ==
    pc # "start" =>
        IF q.Type \notin ValidTypes THEN err = InvalidOperationTypeErr(q.Type)
        ELSE IF q.Name # <<>> /\ ~InGrammar(q.Name)
        THEN err = InvalidNameErr(operationName, q.Name)
        ELSE IF FirstBadField = 0 THEN err = Nil
        ELSE IF q.Fields[FirstBadField].kind = "nil" THEN err = NilFieldErr
        ELSE err = Field_check(q.Fields[FirstBadField])

C16_Witness ==
    /\ pc = "done"
    /\ q.Type \in ValidTypes
    /\ q.Name = <<"Z", "a">>
    /\ q.Fields = <<fieldBadName, Nil>>
    /\ err = InvalidNameErr(fieldName, <<"1", "a">>)

\* the goroutines whose state a step changes
Changed == {p \in DOMAIN procs : procs'[p] # procs[p]}

\* a step changes one goroutine only, or is a send of a goroutine to its
\* parent, who was receiving from it and only takes the token
OwnWrites ==
    \/ Cardinality(Changed) <= 1
    \/ \E c \in Changed :
          /\ c # <<>>
          /\ Changed = {c, Parent(c)}
          /\ procs[Parent(c)].st = "recv"
          /\ Instr(Parent(c)).child = c[Len(c)]
          /\ procs'[c].sent = Append(procs[c].sent, procs'[Parent(c)].str)
          /\ procs'[Parent(c)] = [procs[Parent(c)] EXCEPT !.st = "fwd",
                                                          !.str = procs'[Parent(c)].str]

\* C17: validating and rendering never change the Query (type, name, fields,
\* and every Argument's name and value below them), and a step of a producer
\* writes only to that producer, or hands one token to the parent receiving
\* from it
C17_ReadOnly == [][q' = q /\ OwnWrites]_vars

C17_Witness ==
    /\ pc = "done"
    /\ api = "JsonBody"
    /\ Cardinality(DOMAIN procs) >= 6
    /\ \A p \in DOMAIN procs : procs[p].closed
    /\ q.Name # <<>>

\* the producers that have not finished
Live == {p \in DOMAIN procs : procs[p].st # "done"}

\* the tokens a producer made itself and has handed over
Made(p) ==
    LET code == Body(p)
    IN Cardinality({i \in 1..(procs[p].pc - 1) : code[i].op = "emit"})

RECURSIVE SumMade(_)
SumMade(S) ==
    IF S = {} THEN 0
    ELSE LET p == CHOOSE x \in S : TRUE IN Made(p) + SumMade(S \ {p})

Most(S) == CHOOSE m \in S : \A x \in S : x <= m

\* the number of nesting levels of a tree
RECURSIVE Levels(_)
Levels(n) ==
    IF n.kind = "nil" THEN 0
    ELSE LET code == stringChan(n)
             below == {Levels(Child(n, code[i].child)) :
                          i \in {j \in DOMAIN code : code[j].op = "range"}}
         IN 1 + Most(below \cup {0})

\* a child exists only once its parent reached it, and while it lives the
\* parent is in the range over its channel
SpawnedInOrder(c) ==
    LET code == Body(Parent(c))
        k == c[Len(c)]
    IN /\ Parent(c) \in DOMAIN procs
       /\ \E i \in 1..procs[Parent(c)].pc : i <= Len(code) /\ code[i] = Rng(k)
       /\ c \in Live =>
              /\ procs[Parent(c)].st \in {"recv", "fwd"}
              /\ code[procs[Parent(c)].pc].child = k

\* the children a producer has left behind have closed their channels
EarlierClosed(p) ==
    LET code == Body(p)
    IN \A i \in 1..(procs[p].pc - 1) :
           code[i].op = "range" =>
               /\ Append(p, code[i].child) \in DOMAIN procs
               /\ procs[Append(p, code[i].child)].closed

\* C19: production is driven by demand: the live producers form one chain
\* from the root down, a child exists only once its parent reached it and
\* after all earlier children closed, the root has sent exactly what the
\* caller has taken, and the tokens made but not yet delivered are those held
\* by producers of the chain, fewer than the levels of the tree
C19_DemandDriven ==
    retChan = "tokenChan" =>
        LET held == Cardinality({p \in DOMAIN procs : procs[p].st = "fwd"})
            levels == Levels(q)
        IN /\ \A a, b \in Live : IsPrefix(a, b) \/ IsPrefix(b, a)
           /\ \A c \in DOMAIN procs \ {<<>>} : SpawnedInOrder(c)
           /\ \A p \in DOMAIN procs : EarlierClosed(p)
           /\ Len(procs[<<>>].sent) = Len(strs)
           /\ SumMade(DOMAIN procs) - Len(strs) = held
           /\ held < levels
           /\ Cardinality({p \in Live : HasToken(p)}) <= levels

C19_Witness ==
    /\ retChan = "tokenChan"
    /\ Cardinality({p \in DOMAIN procs : procs[p].st = "fwd"}) >= 3
    /\ Cardinality(Live) >= 5
    /\ Len(strs) > 2 * Levels(q)

\* the paths of all the nodes of a tree that have a stringChan
RECURSIVE PathsFrom(_, _)
PathsFrom(n, p) ==
    LET code == stringChan(n)
    IN {p} \cup UNION {PathsFrom(Child(n, code[i].child), Append(p, code[i].child)) :
                          i \in {j \in DOMAIN code : code[j].op = "range"}}

\* a producer that ran to its end: all its tokens sent, its channel closed
Finished(p) ==
    /\ procs[p].st = "done"
    /\ procs[p].closed
    /\ AtEnd(p)
    /\ procs[p].sent = DepthFirst(Node(p)).toks

\* C20: when the caller has drained the channel and seen it closed, a
\* producer was started for every node of the tree and each has sent all its
\* tokens, closed its channel and ended; and a producer whose channel is
\* closed does nothing more: no further send, no second close
C20_AllTerminated ==
    /\ [](Rendered => (DOMAIN procs = PathsFrom(q, <<>>)
                       /\ \A p \in DOMAIN procs : Finished(p)))
    /\ [][\A p \in DOMAIN procs :
             procs[p].closed => (procs'[p] = procs[p] /\ procs[p].st = "done")]_vars

C20_Witness ==
    /\ Rendered
    /\ api = "StringChan"
    /\ Cardinality(DOMAIN procs) >= 8
    /\ \A p \in DOMAIN procs : Finished(p)

(***************************************************************************)
(* The life of a Query: MakeQuery, then SetName, SetFields and AddFields,  *)
(* then a render; the caller may leave the channel of a render and call    *)
(* again.  The goroutines of a render that was left are blocked on their   *)
(* own channels for good and share nothing with a later render, so they    *)
(* are dropped from procs.                                                 *)
(***************************************************************************)
MaxLog == 2
MaxCalls == 2

MakeQuery(Type) == Query(Type, <<>>, <<>>)

SetNameArgs == {<<"Z", "a">>, <<"1">>}
FieldsArgs ==
    {<<>>, <<fieldA>>, <<Nil>>,
     <<fieldBar, Field(<<"f">>, <<>>, <<argNoValue>>, <<>>)>>}

Logged(op, name, fields) == [op |-> op, name |-> name, fields |-> fields]

\* setters run while no goroutine of an earlier render can still read q
Building ==
    /\ pc = "start"
    /\ ~crashed
    /\ Len(log) < MaxLog
    /\ IF prev = NoAny THEN TRUE ELSE prev.exhausted

LifeInit ==
    /\ q \in {MakeQuery(t) : t \in {TypeQuery, <<>>}}
    /\ pc = "start"
    /\ api = "none"
    /\ checkErr = Nil
    /\ err = Nil
    /\ retChan = "none"
    /\ procs = <<>>
    /\ strs = <<>>
    /\ body = NoBody
    /\ crashed = FALSE
    /\ anyIn = NoAny
    /\ anyOut = NoAny
    /\ log = <<>>
    /\ calls = 0
    /\ prev = NoAny

SetName(name) ==
    /\ Building
    /\ q' = [q EXCEPT !.Name = name]
    /\ log' = Append(log, Logged("SetName", name, <<>>))
    /\ UNCHANGED <<pc, api, checkErr, err, retChan, procs, strs, body, crashed,
                   anyIn, anyOut, calls, prev>>

SetFields(fields) ==
    /\ Building
    /\ q' = [q EXCEPT !.Fields = fields]
    /\ log' = Append(log, Logged("SetFields", <<>>, fields))
    /\ UNCHANGED <<pc, api, checkErr, err, retChan, procs, strs, body, crashed,
                   anyIn, anyOut, calls, prev>>

AddFields_replaces(fields) ==
    /\ Building
    /\ q' = [q EXCEPT !.Fields = fields]
    /\ log' = Append(log, Logged("AddFields", <<>>, fields))
    /\ UNCHANGED <<pc, api, checkErr, err, retChan, procs, strs, body, crashed,
                   anyIn, anyOut, calls, prev>>

AddFields(fields) ==
    /\ Building
    /\ q' = [q EXCEPT !.Fields = @ \o fields]
    /\ log' = Append(log, Logged("AddFields", <<>>, fields))
    /\ UNCHANGED <<pc, api, checkErr, err, retChan, procs, strs, body, crashed,
                   anyIn, anyOut, calls, prev>>

\* what the caller saw of a call: the Query it was made on, the error, and
\* the tokens if it drained the channel to its close
Outcome == [q |-> q, err |-> err, exhausted |-> pc = "done",
            strs |-> IF pc = "done" THEN strs ELSE <<>>]

Again_keepsTokens ==
    /\ ~crashed
    /\ pc \in {"range", "done"}
    /\ calls + 1 < MaxCalls
    /\ prev' = Outcome
    /\ calls' = calls + 1
    /\ pc' = "start"
    /\ api' = "none"
    /\ checkErr' = Nil
    /\ err' = Nil
    /\ retChan' = "none"
    /\ procs' = <<>>
    /\ body' = NoBody
    /\ UNCHANGED <<q, strs, crashed, anyIn, anyOut, log>>

\* the caller leaves the channel it has, drained or not, and is about to
\* call again: the next call makes its own channel and its own goroutines
Again ==
    /\ ~crashed
    /\ pc \in {"range", "done"}
    /\ calls + 1 < MaxCalls
    /\ prev' = Outcome
    /\ calls' = calls + 1
    /\ pc' = "start"
    /\ api' = "none"
    /\ checkErr' = Nil
    /\ err' = Nil
    /\ retChan' = "none"
    /\ procs' = <<>>
    /\ strs' = <<>>
    /\ body' = NoBody
    /\ UNCHANGED <<q, crashed, anyIn, anyOut, log>>

LifeNext ==
    \/ \E name \in SetNameArgs : SetName(name)
    \/ \E fields \in FieldsArgs : SetFields(fields)
    \/ \E fields \in FieldsArgs : AddFields(fields)
    \/ Again
    \/ Next

LifeSpec == LifeInit /\ [][LifeNext]_vars

\* the arguments of the last SetFields call of a log, followed by those of
\* the AddFields calls after it
RECURSIVE FieldsOf(_)
FieldsOf(l) ==
    IF l = <<>> THEN <<>>
    ELSE LET e == l[Len(l)]
             before == SubSeq(l, 1, Len(l) - 1)
         IN IF e.op = "SetFields" THEN e.fields
            ELSE IF e.op = "AddFields" THEN FieldsOf(before) \o e.fields
            ELSE FieldsOf(before)

\* the argument of the last SetName call of a log
NameOf(l) ==
    LET set == {i \in 1..Len(l) : l[i].op = "SetName"}
    IN IF set = {} THEN <<>> ELSE l[CHOOSE i \in set : \A j \in set : j <= i].name

\* C18: after any SetName, SetFields and AddFields calls, Fields is the
\* arguments of the last SetFields followed by those of the later AddFields,
\* and Name is the argument of the last SetName; a setter changes nothing
\* else and reports nothing, a bad name or a nil field being rejected only by
\* the render that follows
C18_Setters ==
    /\ [](/\ q.Fields = FieldsOf(log)
          /\ q.Name = NameOf(log)
          /\ (pc = "start" => (err = Nil /\ retChan = "none"))
          /\ (pc # "start" /\ q.Type \in ValidTypes /\ q.Name = <<"1">>) =>
                 err = InvalidNameErr(operationName, <<"1">>)
          /\ (pc # "start" /\ q.Type \in ValidTypes /\ q.Name # <<"1">>
                /\ q.Fields # <<>> /\ q.Fields[1] = Nil) => err = NilFieldErr)
    /\ [][log' # log =>
            LET e == log'[Len(log')]
            IN /\ q'.Type = q.Type
               /\ e.op = "SetName" => q'.Fields = q.Fields
               /\ e.op # "SetName" => q'.Name = q.Name
               /\ <<pc, api, checkErr, err, retChan, procs, strs, body, crashed>>'
                      = <<pc, api, checkErr, err, retChan, procs, strs, body, crashed>>]_vars

C18_Witness ==
    /\ Len(log) = 2
    /\ log[1].op = "SetFields"
    /\ log[2].op = "AddFields"
    /\ q.Fields = <<fieldA, Nil>>
    /\ pc = "done"
    /\ err = NilFieldErr

\* C15: a render keeps nothing from one call to the next: the error of a
\* call and the tokens of its channel are those of the Query as it is at
\* that call, so a call on an unchanged Query repeats the earlier outcome
\* however far the earlier channel was drained, a Query that failed renders
\* once it is fixed, and a channel that was drained yields nothing more
C15_NoStateAcrossCalls ==
    /\ [](calls >= 1 =>
            /\ (pc # "start" /\ prev.q = q) => err = prev.err
            /\ (pc = "done" /\ prev.q = q /\ prev.exhausted) => strs = prev.strs
            /\ pc # "start" => err = StringChanErr(q)
            /\ retChan = "tokenChan" => IsPrefix(strs, DepthFirst(q).toks)
            /\ Rendered => strs = DepthFirst(q).toks)
    /\ [][(pc = "done" /\ pc' = "done") => strs' = strs]_vars

C15_Witness ==
    /\ calls = 1
    /\ prev.err = NilFieldErr
    /\ prev.q # q
    /\ err = Nil
    /\ Rendered
    /\ Len(strs) >= 4

\* a second call on an unchanged Query, after the first channel was left
\* half drained, has rendered the whole document
C15_SameAgain ==
    /\ calls = 1
    /\ prev.q = q
    /\ ~prev.exhausted
    /\ prev.err = Nil
    /\ Rendered
    /\ Len(strs) >= 3

====
